---- MODULE Spec2Model ----
(***************************************************************************)
(* CodeReviewer: the /review request pipeline of src/app/main.py and the   *)
(* Redis-backed repository cache of src/cache/caching.py.                  *)
(*                                                                         *)
(* Texts (the model's reply, the cached JSON document) are sequences of    *)
(* lexical tokens; json.loads is a recursive-descent parser over them and  *)
(* json.dumps a printer, so that a round trip is something to be checked.  *)
(* Python values are records [k, v, keys, vals]: k is the Python type, v   *)
(* the scalar payload, keys/vals the (insertion-ordered) items.            *)
(***************************************************************************)
EXTENDS Integers, Sequences, FiniteSets, TLC

\* ------------------------------------------------------------------------
\* Python values
\* ------------------------------------------------------------------------
PyStr(s) == [k |-> "str", v |-> s, keys |-> <<>>, vals |-> <<>>]

PyNum(s) == [k |-> "num", v |-> s, keys |-> <<>>, vals |-> <<>>]

PyBool(s) == [k |-> "bool", v |-> s, keys |-> <<>>, vals |-> <<>>]

PyNone == [k |-> "NoneType", v |-> "", keys |-> <<>>, vals |-> <<>>]

PyList(items) == [k |-> "list", v |-> "", keys |-> <<>>, vals |-> items]

PyDict(ks, vs) == [k |-> "dict", v |-> "", keys |-> ks, vals |-> vs]

EmptyDict == PyDict(<<>>, <<>>)

\* a test against None only ("is not None"): empty containers pass
TruthyNotNone(x) == x.k # "NoneType"

\* Python truthiness: None, "", [] and {} are falsy.
Truthy(x) ==
    CASE x.k = "NoneType" -> FALSE
      [] x.k = "str" -> x.v # ""
      [] x.k = "num" -> x.v # "0"
      [] x.k = "bool" -> x.v = "true"
      [] x.k = "list" -> Len(x.vals) > 0
      [] x.k = "dict" -> Len(x.keys) > 0
      [] OTHER -> TRUE

IndexOf(seq, x) ==
    IF \E i \in 1..Len(seq) : seq[i] = x
    THEN CHOOSE i \in 1..Len(seq) : seq[i] = x /\ \A j \in 1..(i - 1) : seq[j] # x
    ELSE 0

\* d[key] = val on a dict: an existing key keeps its position, a new key is
\* appended (insertion order).
DictSet(d, key, val) ==
    LET i == IndexOf(d.keys, key) IN
    IF i = 0
    THEN PyDict(Append(d.keys, key), Append(d.vals, val))
    ELSE PyDict(d.keys, [d.vals EXCEPT ![i] = val])

\* d.get(key, default)
DictGet(d, key, default) ==
    LET i == IndexOf(d.keys, key) IN
    IF i = 0 THEN default ELSE d.vals[i]

\* ------------------------------------------------------------------------
\* Tokens of a text
\* ------------------------------------------------------------------------
TStr(s) == [t |-> "str", v |-> s]

TNum(s) == [t |-> "num", v |-> s]

TLit(s) == [t |-> "lit", v |-> s]

TP(c) == [t |-> "punct", v |-> c]

TWord(s) == [t |-> "word", v |-> s]

\* a Markdown code-fence marker (three backticks)
TFence == [t |-> "fence", v |-> "fence"]

\* ------------------------------------------------------------------------
\* json.loads: a value, then end of text; anything else is JSONDecodeError.
\* ------------------------------------------------------------------------
ParseFail == [ok |-> FALSE, val |-> PyNone, next |-> 0]

ParseOk(val, next) == [ok |-> TRUE, val |-> val, next |-> next]

IsTok(toks, i, tok) == i <= Len(toks) /\ toks[i] = tok

RECURSIVE ParseValue(_, _)
RECURSIVE ParseArrayItems(_, _, _)
RECURSIVE ParseObjectItems(_, _, _)

\* The items of an array after "[" or ",": a value, then "," or "]".
ParseArrayItems(toks, i, acc) ==
    LET r == ParseValue(toks, i) IN
    IF ~r.ok THEN ParseFail
    ELSE IF IsTok(toks, r.next, TP("]")) THEN ParseOk(PyList(Append(acc, r.val)), r.next + 1)
    ELSE IF IsTok(toks, r.next, TP(",")) THEN ParseArrayItems(toks, r.next + 1, Append(acc, r.val))
    ELSE ParseFail

\* The members of an object after "{" or ",": string ":" value, then "," or "}".
\* A repeated key overwrites the earlier value.
ParseObjectItems(toks, i, acc) ==
    IF ~(i + 1 <= Len(toks) /\ toks[i].t = "str" /\ toks[i + 1] = TP(":")) THEN ParseFail
    ELSE LET r == ParseValue(toks, i + 2)
             d == DictSet(acc, toks[i].v, r.val)
         IN  IF ~r.ok THEN ParseFail
             ELSE IF IsTok(toks, r.next, TP("}")) THEN ParseOk(d, r.next + 1)
             ELSE IF IsTok(toks, r.next, TP(",")) THEN ParseObjectItems(toks, r.next + 1, d)
             ELSE ParseFail

ParseValue(toks, i) ==
    IF i > Len(toks) THEN ParseFail
    ELSE LET tok == toks[i] IN
         CASE tok.t = "str" -> ParseOk(PyStr(tok.v), i + 1)
           [] tok.t = "num" -> ParseOk(PyNum(tok.v), i + 1)
           [] tok.t = "lit" /\ tok.v = "null" -> ParseOk(PyNone, i + 1)
           [] tok.t = "lit" /\ tok.v \in {"true", "false"} -> ParseOk(PyBool(tok.v), i + 1)
           [] tok = TP("[") ->
                IF IsTok(toks, i + 1, TP("]")) THEN ParseOk(PyList(<<>>), i + 2)
                ELSE ParseArrayItems(toks, i + 1, <<>>)
           [] tok = TP("{") ->
                IF IsTok(toks, i + 1, TP("}")) THEN ParseOk(EmptyDict, i + 2)
                ELSE ParseObjectItems(toks, i + 1, EmptyDict)
           [] OTHER -> ParseFail

JsonLoads(toks) ==
    LET r == ParseValue(toks, 1) IN
    IF r.ok /\ r.next = Len(toks) + 1 THEN [ok |-> TRUE, val |-> r.val]
    ELSE [ok |-> FALSE, val |-> PyNone]

\* ------------------------------------------------------------------------
\* json.dumps of a value
\* ------------------------------------------------------------------------
RECURSIVE JsonDumps(_)
RECURSIVE DumpItems(_, _, _)

\* items i.. of a list (keys = <<>>) or dict, comma separated
DumpItems(x, i, acc) ==
    IF i > Len(x.vals) THEN acc
    ELSE LET sep == IF i > 1 THEN <<TP(",")>> ELSE <<>>
             key == IF x.k = "dict" THEN <<TStr(x.keys[i]), TP(":")>> ELSE <<>>
         IN  DumpItems(x, i + 1, acc \o sep \o key \o JsonDumps(x.vals[i]))

JsonDumps(x) ==
    CASE x.k = "str" -> <<TStr(x.v)>>
      [] x.k = "num" -> <<TNum(x.v)>>
      [] x.k = "bool" -> <<TLit(x.v)>>
      [] x.k = "NoneType" -> <<TLit("null")>>
      [] x.k = "list" -> <<TP("[")>> \o DumpItems(x, 1, <<>>) \o <<TP("]")>>
      [] x.k = "dict" -> <<TP("{")>> \o DumpItems(x, 1, <<>>) \o <<TP("}")>>

\* ------------------------------------------------------------------------
\* parse_review (src/app/main.py)
\* ------------------------------------------------------------------------
\* what a call gives back: a (comments, rating, conclusion) triple, or an
\* exception that leaves the function
Returned(c, r, concl) ==
    [raised |-> "", comments |-> c, rating |-> r, conclusion |-> concl]

Raised(exc) ==
    [raised |-> exc, comments |-> PyNone, rating |-> PyNone, conclusion |-> PyNone]

\* The except clause of parse_review: which exceptions it handles.
ParseReviewCatches(exc) == exc = "JSONDecodeError"

\* Attribute lookup parsed_data.get: only a dict has it.
HasGet(x) == x.k = "dict"

parse_review(review) ==
    LET loaded == JsonLoads(review)
        exc == IF ~loaded.ok THEN "JSONDecodeError"
               ELSE IF ~HasGet(loaded.val) THEN "AttributeError"
               ELSE ""
    IN  IF exc = ""
        THEN Returned(DictGet(loaded.val, "downsides_and_comments", PyList(<<>>)),
                      DictGet(loaded.val, "rating", PyStr("N/A")),
                      DictGet(loaded.val, "conclusion", PyStr("")))
        ELSE IF ParseReviewCatches(exc)
        THEN Returned(PyList(<<>>), PyStr("N/A"), PyStr("Error parsing review"))
        ELSE Raised(exc)

\* ------------------------------------------------------------------------
\* Model bounds and input sets
\* ------------------------------------------------------------------------
\* clock ticks the model lets pass (two ticks make one day)
MaxTicks == 2

\* concurrent requests
Reqs == {"r1", "r2"}

\* requests are named in their order of arrival
ArrivesBefore(q, r) == q = "r1" /\ r = "r2"

Urls == {"https://github.com/o/a"}

\* the request bodies clients send
ReqInputs ==
    { [github_repo_url |-> "https://github.com/o/a", candidate_level |-> "Junior",
       assignment_description |-> "Review this code."],
      [github_repo_url |-> "https://github.com/o/a", candidate_level |-> "Junior",
       assignment_description |-> "Check style."],
      [github_repo_url |-> "https://github.com/o/a", candidate_level |-> "Senior",
       assignment_description |-> "Review this code."],
      [github_repo_url |-> "https://github.com/o/a", candidate_level |-> "InvalidLevel",
       assignment_description |-> "Review this code."],
      [github_repo_url |-> "https://github.com/o/a", candidate_level |-> "junior",
       assignment_description |-> "Review this code."] }

\* ------------------------------------------------------------------------
\* Texts the generation call may return
\* ------------------------------------------------------------------------
RECURSIVE JoinMembers(_, _)
\* the non-empty members, comma separated
JoinMembers(members, acc) ==
    IF members = <<>> THEN acc
    ELSE IF Head(members) = <<>> THEN JoinMembers(Tail(members), acc)
    ELSE JoinMembers(Tail(members),
                     IF acc = <<>> THEN Head(members) ELSE acc \o <<TP(",")>> \o Head(members))

MemberText(name, choice, valueToks) ==
    CASE choice = "absent" -> <<>>
      [] choice = "null" -> <<TStr(name), TP(":"), TLit("null")>>
      [] OTHER -> <<TStr(name), TP(":")>> \o valueToks

CommentsValue(choice) ==
    IF choice = "string" THEN <<TStr("too long")>>
    ELSE <<TP("["), TStr("no tests"), TP(","), TStr("too long"), TP("]")>>

\* a JSON object with each of the three fields absent, null or set
ObjectText(c, r, k) ==
    <<TP("{")>>
    \o JoinMembers(<<MemberText("downsides_and_comments", c, CommentsValue(c)),
                     MemberText("conclusion", k, <<TStr("Good work")>>),
                     MemberText("rating", r, <<TStr("7/10")>>)>>, <<>>)
    \o <<TP("}")>>

ObjectTexts ==
    { ObjectText(c, r, k) : c \in {"absent", "null", "list", "string"},
                            r \in {"absent", "null", "value"},
                            k \in {"absent", "null", "value"} }

FullObjectText == ObjectText("list", "value", "value")

\* valid JSON whose top-level value is not an object
NonObjectTexts ==
    { <<TP("["), TStr("no tests"), TP("]")>>, <<TP("["), TP("]")>>, <<TStr("Good work")>>,
      <<TNum("7")>>, <<TLit("null")>>, <<TLit("true")>> }

\* text that json.loads rejects
NonJsonTexts ==
    { <<>>,
      <<TWord("Sure"), TWord("here")>>,
      <<TP("{"), TStr("rating"), TP(":")>>,
      <<TP("{"), TStr("rating"), TP(":"), TStr("7/10"), TP(","), TP("}")>>,
      <<TP("{"), TP("}"), TP("{"), TP("}")>>,
      <<TP("["), TStr("no tests"), TP(",")>> }

RawTexts == ObjectTexts \cup NonObjectTexts \cup NonJsonTexts

FenceStyles == {"json", "plain"}

\* t wrapped in Markdown code-fence markers, with or without a language tag
Fenced(style, t) ==
    <<TFence>> \o (IF style = "json" THEN <<TWord("json")>> ELSE <<>>) \o t \o <<TFence>>

\* the replies the generation call gives in the request pipeline
GenTexts ==
    { FullObjectText,
      <<TP("["), TStr("no tests"), TP("]")>>,
      <<TWord("Sure"), TWord("here")>>,
      <<>> }

\* ------------------------------------------------------------------------
\* The hosting provider: what a repository locator resolves to
\* ------------------------------------------------------------------------
ContentFile(path, type, utf8, text) ==
    [path |-> path, type |-> type, utf8 |-> utf8, text |-> text]

TreeNames == {"mixed", "edited", "binary", "empty"}

\* the hosted trees: directory path -> its listing
HostedTree(name) ==
    CASE name = "mixed" ->
           ("" :> <<ContentFile("lib", "dir", TRUE, ""),
                    ContentFile("z.py", "file", TRUE, "print(1)"),
                    ContentFile("logo.png", "file", FALSE, "")>>
            @@ "lib" :> <<ContentFile("lib/a.py", "file", TRUE, "x = 1")>>)
      [] name = "edited" ->
           ("" :> <<ContentFile("z.py", "file", TRUE, "print(2)"),
                    ContentFile("new.py", "file", TRUE, "y = 2")>>)
      [] name = "binary" ->
           ("" :> <<ContentFile("logo.png", "file", FALSE, "")>>)
      [] OTHER -> ("" :> <<>>)

\* repo.get_contents(path) on a tree
Listing(tree, path) == IF path \in DOMAIN tree THEN tree[path] ELSE <<>>

\* a locator resolves to a tree, or g.get_repo raises GithubException
RepoStates == {"NotFound", "Error"} \cup TreeNames

NotFoundStatus == 404

\* status of the GithubException g.get_repo raises, 200 when it returns
ResolveStatus(state) ==
    CASE state = "NotFound" -> NotFoundStatus
      [] state = "Error" -> 403
      [] OTHER -> 200

\* ------------------------------------------------------------------------
\* fetch_github_repo (src/app/main.py)
\* ------------------------------------------------------------------------
\* decoding that never fails: the bytes of a binary file are kept as text
FetchStepKeepUndecodable(tree, contents, files_content) ==
    LET file_content == Head(contents)
        rest == Tail(contents)
    IN  IF file_content.type = "dir"
        THEN [contents |-> rest \o Listing(tree, file_content.path),
              files_content |-> files_content]
        ELSE [contents |-> rest,
              files_content |-> DictSet(files_content, file_content.path,
                                        PyStr(file_content.text))]

\* a loop that does not descend into directories
FetchStepSkipDirs(tree, contents, files_content) ==
    LET file_content == Head(contents)
        rest == Tail(contents)
    IN  IF file_content.type = "dir"
        THEN [contents |-> rest, files_content |-> files_content]
        ELSE IF file_content.utf8
        THEN [contents |-> rest,
              files_content |-> DictSet(files_content, file_content.path,
                                        PyStr(file_content.text))]
        ELSE [contents |-> rest, files_content |-> files_content]

\* a directory's listing put at the front of the work list
FetchStepDepthFirst(tree, contents, files_content) ==
    LET file_content == Head(contents)
        rest == Tail(contents)
    IN  IF file_content.type = "dir"
        THEN [contents |-> Listing(tree, file_content.path) \o rest,
              files_content |-> files_content]
        ELSE IF file_content.utf8
        THEN [contents |-> rest,
              files_content |-> DictSet(files_content, file_content.path,
                                        PyStr(file_content.text))]
        ELSE [contents |-> rest, files_content |-> files_content]

\* one iteration of the while loop on (contents, files_content)
FetchStep(tree, contents, files_content) ==
    LET file_content == Head(contents)
        rest == Tail(contents)
    IN  IF file_content.type = "dir"
        THEN [contents |-> rest \o Listing(tree, file_content.path),
              files_content |-> files_content]
        ELSE IF file_content.utf8
        THEN [contents |-> rest,
              files_content |-> DictSet(files_content, file_content.path,
                                        PyStr(file_content.text))]
        ELSE [contents |-> rest, files_content |-> files_content]

RECURSIVE FetchLoop(_, _, _)
FetchLoop(tree, contents, files_content) ==
    IF contents = <<>> THEN files_content
    ELSE LET s == FetchStep(tree, contents, files_content)
         IN  FetchLoop(tree, s.contents, s.files_content)

\* a handler without the not-found case
ResolutionErrorAlways500(status) == 500

\* the HTTP status the fetch raises for a failed resolution
ResolutionError(status) == IF status = NotFoundStatus THEN 404 ELSE 500

\* [status, detail, files]: status 200 when the fetch returns files
fetch_github_repo(state) ==
    LET st == ResolveStatus(state) IN
    IF st # 200
    THEN [status |-> ResolutionError(st),
          detail |-> IF ResolutionError(st) = 404 THEN "Repository not found."
                     ELSE "An error occurred while fetching the repository.",
          files |-> EmptyDict]
    ELSE [status |-> 200, detail |-> "",
          files |-> FetchLoop(HostedTree(state), Listing(HostedTree(state), ""), EmptyDict)]

\* ------------------------------------------------------------------------
\* create_prompt (src/app/main.py): the prompt as its parts in order
\* ------------------------------------------------------------------------
PromptPart(kind, a, b) == [kind |-> kind, a |-> a, b |-> b]

\* a prompt built without the request's assignment text
create_promptNoDescription(files, description, level) ==
    <<PromptPart("level", level, "")>>
    \o [i \in 1..Len(files.keys) |-> PromptPart("file", files.keys[i], files.vals[i].v)]
    \o <<PromptPart("assignment", "", ""), PromptPart("format", "", "")>>

create_prompt(files, description, level) ==
    <<PromptPart("level", level, "")>>
    \o [i \in 1..Len(files.keys) |-> PromptPart("file", files.keys[i], files.vals[i].v)]
    \o <<PromptPart("assignment", description, ""), PromptPart("format", "", "")>>

\* ------------------------------------------------------------------------
\* The cache (src/cache/caching.py)
\* ------------------------------------------------------------------------
ONE_MINUTE == 60

ONE_DAY == 60 * 60 * 24

\* seconds per clock tick
TickLen == ONE_DAY \div 2

generate_repo_cache_key(repo_url, level) == <<"code", repo_url, level>>

ValidLevels == {"Junior", "Middle", "Senior"}

\* a pattern matched without regard to case
LevelMatchesAnyCase(level) == level \in ValidLevels \cup {"junior", "middle", "senior"}

\* pattern='^(Junior|Middle|Senior)$' of ReviewRequest.candidate_level
LevelMatches(level) == level \in ValidLevels

CacheKeys == { generate_repo_cache_key(u, l) : u \in Urls, l \in ValidLevels }

NoEntry == [present |-> FALSE, val |-> <<>>, exp |-> 0]

\* a set that keeps an entry already there (NX)
RedisSetIfAbsent(store, key, value, ttl, t) ==
    IF store[key].present /\ t < store[key].exp THEN store
    ELSE [store EXCEPT ![key] = [present |-> TRUE, val |-> value, exp |-> t + ttl]]

\* a set that never reaches the store (the call is not awaited)
RedisSetLost(store, key, value, ttl, t) == store

\* redis.set(key, value, ex=ttl) at time t
RedisSet(store, key, value, ttl, t) ==
    [store EXCEPT ![key] = [present |-> TRUE, val |-> value, exp |-> t + ttl]]

\* redis.get(key) at time t: the value, or None once the entry has expired
RedisGet(store, key, t) ==
    IF store[key].present /\ t < store[key].exp
    THEN [found |-> TRUE, val |-> store[key].val]
    ELSE [found |-> FALSE, val |-> <<>>]

\* what set_cached_github_repo stores for data
CachedDocument(data) == JsonDumps(data)

\* get_cached_github_repo after redis.get returned: the dict, None, or the
\* exception json.loads raises
DecodeCached(got) ==
    IF got.found /\ got.val # <<>>
    THEN LET loaded == JsonLoads(got.val) IN
         IF loaded.ok THEN [raised |-> "", val |-> loaded.val]
         ELSE [raised |-> "JSONDecodeError", val |-> PyNone]
    ELSE [raised |-> "", val |-> PyNone]

\* ------------------------------------------------------------------------
\* State
\* ------------------------------------------------------------------------
VARIABLES
    cache,      \* the Redis store: cache key -> entry
    now,        \* the clock, in ticks
    repo,       \* the hosting provider: locator -> what it resolves to
    req,        \* the requests: their position in review_code and their locals
    pv,         \* a parse_review call on its own: input text and results
    fv          \* a fetch_github_repo traversal on its own: its locals

vars == <<cache, now, repo, req, pv, fv>>

Clock == now * TickLen

\* marks a field a response does not carry
Absent == [k |-> "absent", v |-> "", keys |-> <<>>, vals |-> <<>>]

\* kind "json": a JSON body; kind "text": the server's plain-text reply to an
\* exception no handler caught (exc names it)
Response(status, kind, detail, exc, files, c, r, k) ==
    [status |-> status, kind |-> kind, detail |-> detail, exc |-> exc,
     files_found |-> files, comments |-> c, rating |-> r, conclusion |-> k]

NoResponse == Response(0, "", "", "", <<>>, Absent, Absent, Absent)

\* raise HTTPException(status_code, detail)
HTTPError(status, detail) ==
    Response(status, "json", detail, "", <<>>, Absent, Absent, Absent)

\* an exception that leaves review_code
Unhandled(exc) ==
    Response(500, "text", "", exc, <<>>, Absent, Absent, Absent)

\* the dictionary review_code returns
ReviewResponse(repo_content, parsed) ==
    Response(200, "json", "", "", repo_content.keys,
             parsed.comments, parsed.rating, parsed.conclusion)

IdleReq ==
    [pc |-> "Idle", url |-> "", level |-> "", description |-> "",
     repo_key |-> <<>>, hit |-> FALSE, repo_content |-> PyNone,
     prompt |-> <<>>, review |-> <<>>, response |-> NoResponse,
     nget |-> 0, nresolve |-> 0, nset |-> 0, stored |-> FALSE, ngen |-> 0, nparse |-> 0,
     prior |-> {}, fetched_from |-> ""]

Terminal ==
    {"Rejected", "Failed", "RepoNotFound", "FetchError", "NoFilesFound",
     "GenerationFailed", "Done"}

PvOff == [pc |-> "off", raw |-> <<>>, style |-> "", plain |-> Raised(""), fenced |-> Raised("")]

FvOff ==
    [pc |-> "off", tree |-> ("" :> <<>>), contents |-> <<>>, files_content |-> EmptyDict,
     dequeued |-> <<>>]

Init ==
    /\ fv = FvOff
    /\ cache = [key \in CacheKeys |-> NoEntry]
    /\ now = 0
    /\ repo \in [Urls -> RepoStates]
    /\ req = [r \in Reqs |-> IdleReq]
    /\ pv = PvOff

\* ------------------------------------------------------------------------
\* review_code (src/app/main.py), one action per step between suspensions
\* ------------------------------------------------------------------------
\* The request body is validated; a valid one enters review_code and builds
\* its cache key.
Arrive(r, body) ==
    /\ req[r].pc = "Idle"
    /\ \A q \in Reqs : ArrivesBefore(q, r) => req[q].pc # "Idle"
    /\ LET base == [req[r] EXCEPT !.url = body.github_repo_url,
                                  !.level = body.candidate_level,
                                  !.description = body.assignment_description,
                                  !.prior = {q \in Reqs : req[q].pc \in Terminal}]
       IN  IF LevelMatches(body.candidate_level)
           THEN req' = [req EXCEPT ![r] =
                    [base EXCEPT !.pc = "CacheLookup",
                                 !.repo_key = generate_repo_cache_key(body.github_repo_url,
                                                                      body.candidate_level)]]
           ELSE req' = [req EXCEPT ![r] =
                    [base EXCEPT !.pc = "Rejected",
                                 !.response = HTTPError(422, "validation error")]]
    /\ UNCHANGED <<cache, now, repo, pv, fv>>

\* a lookup that never takes the cached value
UseCachedNever(cached_repo) == FALSE

\* if cached_repo: (line 56)
UseCached(cached_repo) == Truthy(cached_repo)

\* the cache write moved out of the else branch: a hit stores again
AfterHitStoreAgain == "CacheStore"

\* where a hit continues: repo_content = cached_repo, then the analysis
AfterHit == "Generating"

\* cached_repo = await get_cached_github_repo(repo_key), then the branch on it
CacheGet(r, redisUp) ==
    /\ req[r].pc = "CacheLookup"
    /\ LET base == [req[r] EXCEPT !.nget = @ + 1]
           dec == DecodeCached(RedisGet(cache, req[r].repo_key, Clock))
       IN  IF ~redisUp
           THEN req' = [req EXCEPT ![r] =
                    [base EXCEPT !.pc = "Failed", !.response = Unhandled("RedisError")]]
           ELSE IF dec.raised # ""
           THEN req' = [req EXCEPT ![r] =
                    [base EXCEPT !.pc = "Failed", !.response = Unhandled(dec.raised)]]
           ELSE IF UseCached(dec.val)
           THEN req' = [req EXCEPT ![r] =
                    [base EXCEPT !.pc = AfterHit, !.hit = TRUE, !.repo_content = dec.val]]
           ELSE req' = [req EXCEPT ![r] = [base EXCEPT !.pc = "Fetching"]]
    /\ UNCHANGED <<cache, now, repo, pv, fv>>

\* repo_content = await fetch_github_repo(url), then the check for no files
Fetch(r) ==
    /\ req[r].pc = "Fetching"
    /\ LET base == [req[r] EXCEPT !.nresolve = @ + 1, !.fetched_from = repo[req[r].url]]
           f == fetch_github_repo(repo[req[r].url])
       IN  IF f.status # 200
           THEN req' = [req EXCEPT ![r] =
                    [base EXCEPT !.pc = IF f.status = 404 THEN "RepoNotFound" ELSE "FetchError",
                                 !.response = HTTPError(f.status, f.detail)]]
           ELSE IF ~Truthy(f.files)
           THEN req' = [req EXCEPT ![r] =
                    [base EXCEPT !.pc = "NoFilesFound",
                                 !.repo_content = f.files,
                                 !.response = HTTPError(500,
                                     "No files found in the repository or unable to fetch content.")]]
           ELSE req' = [req EXCEPT ![r] =
                    [base EXCEPT !.pc = "CacheStore", !.repo_content = f.files]]
    /\ UNCHANGED <<cache, now, repo, pv, fv>>

\* await set_cached_github_repo(repo_key, repo_content)
CacheSet(r, redisUp) ==
    /\ req[r].pc = "CacheStore"
    /\ IF redisUp
       THEN /\ cache' = RedisSet(cache, req[r].repo_key,
                                 CachedDocument(req[r].repo_content), ONE_DAY, Clock)
            /\ req' = [req EXCEPT ![r].pc = "Generating", ![r].nset = @ + 1,
                                  ![r].stored = TRUE]
       ELSE /\ cache' = cache
            /\ req' = [req EXCEPT ![r].pc = "Failed", ![r].nset = @ + 1,
                                  ![r].response = Unhandled("RedisError")]
    /\ UNCHANGED <<now, repo, pv, fv>>

\* a handler that calls the provider again
OnGenerationErrorRetry == "Generating"

\* where the except clause of analyze_code_with_gemini leaves the request:
\* it raises HTTPException, no second attempt
OnGenerationError == "GenerationFailed"

\* what generate_content does: raises, or returns a text
GenOutcomes == {[ok |-> FALSE, text |-> <<>>]} \cup {[ok |-> TRUE, text |-> t] : t \in GenTexts}

\* review = await analyze_code_with_gemini(...), then "if not review"
Generate(r, outcome) ==
    /\ req[r].pc = "Generating"
    /\ LET base == [req[r] EXCEPT !.ngen = @ + 1,
                                  !.prompt = create_prompt(req[r].repo_content,
                                                           req[r].description, req[r].level)]
       IN  IF ~outcome.ok
           THEN req' = [req EXCEPT ![r] =
                    [base EXCEPT !.pc = OnGenerationError,
                                 !.response = HTTPError(500, "Gemini API error")]]
           ELSE IF outcome.text = <<>>
           THEN req' = [req EXCEPT ![r] =
                    [base EXCEPT !.pc = "GenerationFailed",
                                 !.response = HTTPError(500, "Could not analyze code with Gemini.")]]
           ELSE req' = [req EXCEPT ![r] = [base EXCEPT !.pc = "Parsing", !.review = outcome.text]]
    /\ UNCHANGED <<cache, now, repo, pv, fv>>

\* parse_review(review) and the returned dictionary
Parse(r) ==
    /\ req[r].pc = "Parsing"
    /\ LET parsed == parse_review(req[r].review)
           base == [req[r] EXCEPT !.nparse = @ + 1]
       IN  IF parsed.raised # ""
           THEN req' = [req EXCEPT ![r] =
                    [base EXCEPT !.pc = "Failed", !.response = Unhandled(parsed.raised)]]
           ELSE req' = [req EXCEPT ![r] =
                    [base EXCEPT !.pc = "Done",
                                 !.response = ReviewResponse(req[r].repo_content, parsed)]]
    /\ UNCHANGED <<cache, now, repo, pv, fv>>

\* ------------------------------------------------------------------------
\* The environment
\* ------------------------------------------------------------------------
Tick ==
    /\ now < MaxTicks
    /\ now' = now + 1
    /\ UNCHANGED <<cache, repo, req, pv, fv>>

\* the owner pushes, deletes or restores a repository
ChangeRepo(u, state) ==
    /\ repo[u] # state
    /\ repo' = [repo EXCEPT ![u] = state]
    /\ UNCHANGED <<cache, now, req, pv, fv>>

Next ==
    \/ \E r \in Reqs, body \in ReqInputs : Arrive(r, body)
    \/ \E r \in Reqs, redisUp \in BOOLEAN : CacheGet(r, redisUp)
    \/ \E r \in Reqs : Fetch(r)
    \/ \E r \in Reqs, redisUp \in BOOLEAN : CacheSet(r, redisUp)
    \/ \E r \in Reqs, outcome \in GenOutcomes : Generate(r, outcome)
    \/ \E r \in Reqs : Parse(r)
    \/ Tick
    \/ \E u \in Urls, state \in RepoStates : ChangeRepo(u, state)

Spec == Init /\ [][Next]_vars

\* ------------------------------------------------------------------------
\* parse_review on its own, over every raw text
\* ------------------------------------------------------------------------
InitParse ==
    /\ fv = FvOff
    /\ cache = [key \in CacheKeys |-> NoEntry]
    /\ now = 0
    /\ repo = [u \in Urls |-> "empty"]
    /\ req = [r \in Reqs |-> IdleReq]
    /\ \E raw \in RawTexts, style \in FenceStyles :
          pv = [PvOff EXCEPT !.pc = "input", !.raw = raw, !.style = style]

\* the text is parsed as it is, and wrapped in code-fence markers
ParseRaw ==
    /\ pv.pc = "input"
    /\ pv' = [pv EXCEPT !.pc = "parsed",
                        !.plain = parse_review(pv.raw),
                        !.fenced = parse_review(Fenced(pv.style, pv.raw))]
    /\ UNCHANGED <<cache, now, repo, req, fv>>

NextParse == ParseRaw

SpecParse == InitParse /\ [][NextParse]_vars

\* ------------------------------------------------------------------------
\* fetch_github_repo on its own: the traversal, one loop iteration a step
\* ------------------------------------------------------------------------
\* a tree of three directories and four files, each file's bytes UTF-8 or
\* not, the root listed with its file before or after its directories
FamilyTree(u1, u2, u3, u4, fileFirst) ==
    LET a == ContentFile("a", "dir", TRUE, "")
        b == ContentFile("b", "dir", TRUE, "")
        z == ContentFile("z.py", "file", u1, IF u1 THEN "print(1)" ELSE "")
    IN  ("" :> (IF fileFirst THEN <<z, a, b>> ELSE <<a, z, b>>)
         @@ "a" :> <<ContentFile("a/x.py", "file", u2, IF u2 THEN "x = 1" ELSE ""),
                     ContentFile("a/c", "dir", TRUE, "")>>
         @@ "a/c" :> <<ContentFile("a/c/y.py", "file", u3, IF u3 THEN "y = 2" ELSE "")>>
         @@ "b" :> <<ContentFile("b/w.py", "file", u4, IF u4 THEN "w = 3" ELSE "")>>)

FetchTrees ==
    { HostedTree(name) : name \in TreeNames }
    \cup { FamilyTree(u1, u2, u3, u4, ff) : u1, u2, u3, u4, ff \in BOOLEAN }

InitFetch ==
    /\ cache = [key \in CacheKeys |-> NoEntry]
    /\ now = 0
    /\ repo = [u \in Urls |-> "empty"]
    /\ req = [r \in Reqs |-> IdleReq]
    /\ pv = PvOff
    /\ \E tree \in FetchTrees : fv = [FvOff EXCEPT !.pc = "call", !.tree = tree]

\* contents = repo.get_contents(''); files_content = {}
FetchBegin ==
    /\ fv.pc = "call"
    /\ fv' = [fv EXCEPT !.pc = "loop", !.contents = Listing(fv.tree, ""),
                        !.files_content = EmptyDict]
    /\ UNCHANGED <<cache, now, repo, req, pv>>

\* one iteration of "while contents"
FetchIterate ==
    /\ fv.pc = "loop"
    /\ fv.contents # <<>>
    /\ LET s == FetchStep(fv.tree, fv.contents, fv.files_content) IN
       fv' = [fv EXCEPT !.contents = s.contents,
                        !.files_content = s.files_content,
                        !.dequeued = Append(@, Head(fv.contents))]
    /\ UNCHANGED <<cache, now, repo, req, pv>>

\* return files_content
FetchReturn ==
    /\ fv.pc = "loop"
    /\ fv.contents = <<>>
    /\ fv' = [fv EXCEPT !.pc = "returned"]
    /\ UNCHANGED <<cache, now, repo, req, pv>>

NextFetch == FetchBegin \/ FetchIterate \/ FetchReturn

\* the call runs without suspension: it keeps taking steps until it returns
SpecFetch == InitFetch /\ [][NextFetch]_vars /\ WF_vars(NextFetch)

\* ------------------------------------------------------------------------
\* Properties
\* ------------------------------------------------------------------------
Finished(r) == req[r].pc \in Terminal

\* r2 arrived after r1 had finished, with the same locator and level
Sequential(r1, r2) ==
    /\ r1 # r2
    /\ r1 \in req[r2].prior
    /\ req[r1].url = req[r2].url
    /\ req[r1].level = req[r2].level

\* the store holds an entry for r's locator and level that has not expired
EntryLive(r) ==
    /\ cache[<<"code", req[r].url, req[r].level>>].present
    /\ Clock < cache[<<"code", req[r].url, req[r].level>>].exp

\* r's cache lookup completes in this step
LookupStep(r) == req[r].pc = "CacheLookup" /\ req'[r].pc # "CacheLookup"

\* C1: for two sequential requests with the same locator and level, the
\* first of which fetched a non-empty FileSet and stored it, a lookup by
\* the second while the entry is unexpired never leads to a fetch; the
\* provider is then fetched once in total, by the first request, and when
\* both respond with a review the second's files_found equals the first's,
\* in content and order.
C1_CacheIdempotence ==
    /\ [][\A r1, r2 \in Reqs :
            (Sequential(r1, r2) /\ req[r1].stored /\ EntryLive(r2) /\ LookupStep(r2))
            => (req'[r2].pc # "Fetching"
                /\ (req'[r2].pc # "Failed"
                    => req'[r2].hit /\ req'[r2].repo_content = req[r1].repo_content))]_vars
    /\ [](\A r1, r2 \in Reqs :
            (Sequential(r1, r2) /\ req[r1].stored /\ req[r2].hit)
            => /\ req[r1].nresolve = 1
               /\ req[r2].nresolve = 0
               /\ (req[r1].pc = "Done" /\ req[r2].pc = "Done"
                   => req[r2].response.files_found = req[r1].response.files_found))

C1_Witness ==
    /\ Sequential("r1", "r2")
    /\ req["r1"].stored /\ req["r2"].hit
    /\ req["r1"].pc = "Done" /\ req["r2"].pc = "Done"
    /\ req["r1"].nresolve + req["r2"].nresolve = 1
    /\ req["r2"].response.files_found = <<"z.py", "lib/a.py">>
    /\ now > 0

\* C2: the store changes only in a step in which a request that missed the
\* cache and whose own fetch returned a non-empty FileSet writes its own
\* key; a request never attempts the write before its fetch returned, and a
\* request whose lookup was a hit never writes.
C2_CacheWriteOrder ==
    /\ [][cache' # cache =>
            \E r \in Reqs :
                /\ req[r].pc = "CacheStore" /\ req'[r].pc = "Generating"
                /\ ~req[r].hit
                /\ req[r].nresolve = 1
                /\ Len(req[r].repo_content.keys) > 0
                /\ \A key \in CacheKeys :
                       key # <<"code", req[r].url, req[r].level>> => cache'[key] = cache[key]]_vars
    /\ [](\A r \in Reqs :
            /\ req[r].hit => req[r].nset = 0 /\ req[r].pc # "CacheStore"
            /\ req[r].nset > 0 \/ req[r].pc = "CacheStore" => req[r].nresolve = 1)

C2_Witness ==
    /\ req["r1"].stored /\ req["r1"].nset = 1 /\ req["r1"].nresolve = 1
    /\ req["r2"].hit /\ req["r2"].pc = "Done" /\ req["r2"].nset = 0

\* the generation call of r returned a text (no provider error)
GenReturned(r) ==
    /\ req[r].ngen = 1
    /\ req[r].pc # "Generating"
    /\ req[r].response.detail # "Gemini API error"

NonNull(x) == x # Absent /\ x # PyNone

\* C3: every finished request that had a non-empty FileSet (fetched or
\* cached) and whose generation call returned a text that was handed to
\* the parser responds 200 with
\* files_found the FileSet's paths in order and the three review fields
\* present and non-null.
C3_ReviewPopulated ==
    \A r \in Reqs :
        (Finished(r) /\ GenReturned(r) /\ req[r].nparse = 1
         /\ Len(req[r].repo_content.keys) > 0)
        => /\ req[r].response.status = 200
           /\ req[r].response.files_found = req[r].repo_content.keys
           /\ NonNull(req[r].response.comments)
           /\ NonNull(req[r].response.rating)
           /\ NonNull(req[r].response.conclusion)

\* C4: whenever the generation call returned a text, whatever the text,
\* the request ends in Done with all three fields in its result.
C4_NeverFailsOnMalformed ==
    \A r \in Reqs :
        (Finished(r) /\ GenReturned(r))
        => /\ req[r].pc = "Done"
           /\ req[r].response.comments # Absent
           /\ req[r].response.rating # Absent
           /\ req[r].response.conclusion # Absent

\* the text is not JSON, or is JSON whose top-level value is not an object
NotAnObject(raw) ==
    LET loaded == JsonLoads(raw) IN ~loaded.ok \/ loaded.val.k # "dict"

\* C5: for every raw text that is not parseable as an object, parse_review
\* returns rating "N/A" and a non-empty conclusion and raises nothing.
C5_ParserDegrades ==
    (pv.pc = "parsed" /\ NotAnObject(pv.raw))
    => /\ pv.plain.raised = ""
       /\ pv.plain.rating = PyStr("N/A")
       /\ pv.plain.conclusion.k = "str" /\ pv.plain.conclusion.v # ""

\* C6: a structured payload wrapped in code-fence markers parses to the
\* same (comments, rating, conclusion) as the payload unwrapped.
C6_FenceRobust ==
    (pv.pc = "parsed" /\ pv.raw \in ObjectTexts) => pv.fenced = pv.plain

\* C7: after its cache lookup a request has either taken the cached value
\* or gone on to fetch the repository; a failed read is a miss.
C7_ReadFailureIsMiss ==
    \A r \in Reqs :
        (req[r].nget = 1 /\ req[r].pc # "CacheLookup")
        => (req[r].hit \/ req[r].pc = "Fetching" \/ req[r].nresolve = 1)

\* C8: after its cache write was attempted a request goes on to the
\* generation call with the FileSet it fetched; a failed write is swallowed.
C8_WriteFailureSwallowed ==
    \A r \in Reqs :
        req[r].nset = 1 => (req[r].pc = "Generating" \/ req[r].ngen = 1)

\* r's call of fetch_github_repo completes in this step
FetchStepOf(r) == req[r].pc = "Fetching" /\ req'[r].pc # "Fetching"

\* C9: a fetch whose resolution fails with not-found ends the request in
\* RepoNotFound with a 404 response, one whose resolution fails otherwise
\* ends it in a fetch error with a 500 response; in neither case is the
\* cache written or the generation call made.
C9_NotFoundBoundary ==
    /\ [][\A r \in Reqs :
            FetchStepOf(r) =>
                /\ repo[req[r].url] = "NotFound"
                   => /\ req'[r].pc = "RepoNotFound"
                      /\ req'[r].response.status = 404
                      /\ cache' = cache
                /\ repo[req[r].url] = "Error"
                   => /\ req'[r].pc = "FetchError"
                      /\ req'[r].response.status = 500
                      /\ cache' = cache]_vars
    /\ [](\A r \in Reqs :
            req[r].pc \in {"RepoNotFound", "FetchError"}
            => req[r].nset = 0 /\ ~req[r].stored /\ req[r].ngen = 0 /\ req[r].nparse = 0)

C9_Witness ==
    /\ req["r1"].pc = "RepoNotFound" /\ req["r1"].response.status = 404
    /\ req["r2"].pc = "FetchError" /\ req["r2"].response.status = 500

\* r's request body is validated in this step
ArriveStep(r) == req[r].pc = "Idle" /\ req'[r].pc # "Idle"

\* C10: a request whose candidate_level is not exactly Junior, Middle or
\* Senior is rejected with 422 and makes no cache, hosting-provider or
\* generation call; its rejection leaves the cache unchanged.
C10_EnumBoundary ==
    /\ [](\A r \in Reqs :
            (req[r].pc # "Idle" /\ req[r].level \notin {"Junior", "Middle", "Senior"})
            => /\ req[r].pc = "Rejected"
               /\ req[r].response.status = 422
               /\ req[r].nget = 0 /\ req[r].nresolve = 0 /\ req[r].nset = 0
               /\ req[r].ngen = 0 /\ req[r].nparse = 0)
    /\ [][\A r \in Reqs :
            (ArriveStep(r) /\ req'[r].level \notin {"Junior", "Middle", "Senior"})
            => cache' = cache]_vars

C10_Witness ==
    /\ req["r1"].pc = "Rejected" /\ req["r1"].level = "InvalidLevel"
    /\ req["r1"].response.status = 422
    /\ req["r2"].pc = "Rejected" /\ req["r2"].level = "junior"

\* the entries of a tree, over all its directories
AllEntries(tree) == UNION { { tree[d][i] : i \in 1..Len(tree[d]) } : d \in DOMAIN tree }

\* a file entry whose content decodes as UTF-8
IsText(e) == e.type # "dir" /\ e.utf8

SeqRange(seq) == { seq[i] : i \in 1..Len(seq) }

PathsOf(entries) == [i \in 1..Len(entries) |-> entries[i].path]

\* C11: the FileSet the fetch returns holds exactly the file entries of
\* the tree whose content decodes as UTF-8, each once under its path with
\* its decoded text, and none of the undecodable ones.
C11_DecodeRobust ==
    fv.pc = "returned"
    => LET text == { e \in AllEntries(fv.tree) : IsText(e) }
           files == fv.files_content
       IN  /\ SeqRange(files.keys) = { e.path : e \in text }
           /\ Len(files.keys) = Cardinality(text)
           /\ \A e \in text : DictGet(files, e.path, PyNone) = PyStr(e.text)
           /\ \A e \in AllEntries(fv.tree) :
                  (e.type # "dir" /\ ~e.utf8) => e.path \notin SeqRange(files.keys)

\* one undecodable and two decodable files
C11_Witness ==
    /\ fv.pc = "returned"
    /\ fv.tree = HostedTree("mixed")
    /\ fv.files_content.keys = <<"z.py", "lib/a.py">>
    /\ \E e \in SeqRange(fv.dequeued) : e.type = "file" /\ ~e.utf8

\* r has entered review_code
Entered(r) == req[r].pc \notin {"Idle", "Rejected"}

\* the assignment text a prompt carries
AssignmentIn(prompt) == { part.a : part \in { q \in SeqRange(prompt) : q.kind = "assignment" } }

\* C12: requests with the same locator and level have the same cache key
\* whatever their assignment descriptions; a request that follows one which
\* stored its fetch, differing only in the description, does not fetch
\* while the entry is unexpired; and every request that gets to the
\* generation call, served from the cache or not, makes one call of its
\* own, with a prompt carrying its own description.
C12_KeyIgnoresDescription ==
    /\ [](\A r1, r2 \in Reqs :
            (Entered(r1) /\ Entered(r2) /\ req[r1].url = req[r2].url
             /\ req[r1].level = req[r2].level)
            => req[r1].repo_key = req[r2].repo_key)
    /\ [][\A r1, r2 \in Reqs :
            (Sequential(r1, r2) /\ req[r1].description # req[r2].description
             /\ req[r1].stored /\ EntryLive(r2) /\ LookupStep(r2))
            => (req'[r2].pc # "Fetching" /\ (req'[r2].pc # "Failed" => req'[r2].hit))]_vars
    /\ [](\A r \in Reqs :
            /\ req[r].pc \in {"Parsing", "Done", "GenerationFailed"} => req[r].ngen = 1
            /\ req[r].ngen = 1 => AssignmentIn(req[r].prompt) = {req[r].description}
            /\ req[r].hit => req[r].nresolve = 0)

C12_Witness ==
    /\ Sequential("r1", "r2")
    /\ req["r1"].description = "Review this code." /\ req["r2"].description = "Check style."
    /\ req["r1"].stored /\ req["r1"].pc = "Done"
    /\ req["r2"].hit /\ req["r2"].nresolve = 0 /\ req["r2"].ngen = 1
    /\ req["r2"].pc = "Done"
    /\ AssignmentIn(req["r2"].prompt) = {"Check style."}

\* C13: every request that ends in an error gets a JSON body with a detail
\* message and no part of a review; RepoNotFound, NoFilesFound and
\* GenerationFailed differ in status or detail.
C13_ErrorsCarryDetail ==
    /\ \A r \in Reqs :
          (Finished(r) /\ req[r].pc # "Done")
          => /\ req[r].response.kind = "json"
             /\ req[r].response.detail # ""
             /\ req[r].response.status \in {404, 422, 500}
             /\ req[r].response.files_found = <<>>
             /\ req[r].response.comments = Absent
             /\ req[r].response.rating = Absent
             /\ req[r].response.conclusion = Absent
    /\ \A r1, r2 \in Reqs :
          ({req[r1].pc, req[r2].pc} \subseteq {"RepoNotFound", "NoFilesFound", "GenerationFailed"}
           /\ req[r1].pc # req[r2].pc)
          => <<req[r1].response.status, req[r1].response.detail>>
             # <<req[r2].response.status, req[r2].response.detail>>

\* r's cache write completes in this step
StoreStep(r) == req[r].pc = "CacheStore" /\ req'[r].pc = "Generating"

\* both requests missed on the same key, fetched and wrote
BothWrote(r1, r2) ==
    /\ r1 # r2
    /\ req[r1].url = req[r2].url /\ req[r1].level = req[r2].level
    /\ ~req[r1].hit /\ ~req[r2].hit
    /\ req[r1].stored /\ req[r2].stored

\* C14: after every cache write the store holds, under the writer's key,
\* the FileSet that writer fetched (so the last write wins); when two
\* requests for one key both missed, fetched and wrote, each one's response
\* reports the files it fetched itself, and if both fetched the repository
\* in the same state the two FileSets are equal.
C14_ConcurrentMisses ==
    /\ [][\A r \in Reqs :
            StoreStep(r)
            => LET entry == cache'[<<"code", req[r].url, req[r].level>>] IN
               /\ entry.present
               /\ JsonLoads(entry.val) = [ok |-> TRUE, val |-> req[r].repo_content]]_vars
    /\ [](\A r1, r2 \in Reqs :
            BothWrote(r1, r2)
            => /\ req[r1].pc = "Done"
                  => req[r1].response.files_found = req[r1].repo_content.keys
               /\ req[r1].fetched_from = req[r2].fetched_from
                  => req[r1].repo_content = req[r2].repo_content)

C14_Witness ==
    /\ BothWrote("r1", "r2")
    /\ req["r1"].prior = {} /\ req["r2"].prior = {}
    /\ req["r1"].pc = "Done" /\ req["r2"].pc = "Done"
    /\ req["r1"].fetched_from = "mixed" /\ req["r2"].fetched_from = "edited"
    /\ req["r1"].response.files_found = <<"z.py", "lib/a.py">>
    /\ req["r2"].response.files_found = <<"z.py", "new.py">>

\* the order of the states of review_code
Rank(pc) ==
    CASE pc = "Idle" -> 0
      [] pc = "CacheLookup" -> 1
      [] pc = "Fetching" -> 2
      [] pc = "CacheStore" -> 3
      [] pc = "Generating" -> 4
      [] pc = "Parsing" -> 5
      [] OTHER -> 6

\* C15: a request makes at most one cache get, one repository resolution
\* and traversal, one cache set, one generation call and one parse; its
\* state only moves forward, a step that produces an error response ends
\* it, and a finished request takes no further step.
C15_NoRetry ==
    /\ [](\A r \in Reqs :
            /\ req[r].nget <= 1 /\ req[r].nresolve <= 1 /\ req[r].nset <= 1
            /\ req[r].ngen <= 1 /\ req[r].nparse <= 1
            /\ req[r].response.status \notin {0, 200} => Finished(r))
    /\ [][\A r \in Reqs :
            /\ req'[r] # req[r] => Rank(req'[r].pc) > Rank(req[r].pc)
            /\ Finished(r) => req'[r] = req[r]]_vars

C15_Witness ==
    /\ req["r1"].pc = "Done" /\ ~req["r1"].hit
    /\ req["r1"].nget = 1 /\ req["r1"].nresolve = 1 /\ req["r1"].nset = 1
    /\ req["r1"].ngen = 1 /\ req["r1"].nparse = 1
    /\ req["r2"].pc = "GenerationFailed" /\ req["r2"].ngen = 1 /\ req["r2"].nparse = 0
    /\ req["r2"].response.detail = "Gemini API error"

\* C16: the traversal of a finite tree whose listings succeed ends with
\* the work queue empty, having dequeued every directory and every file of
\* the tree exactly once.
C16_TraversalTerminates ==
    /\ <>(fv.pc = "returned")
    /\ [](fv.pc = "returned"
          => /\ fv.contents = <<>>
             /\ SeqRange(fv.dequeued) = AllEntries(fv.tree)
             /\ Len(fv.dequeued) = Cardinality(AllEntries(fv.tree)))

C16_Witness ==
    /\ fv.pc = "returned"
    /\ Len(fv.dequeued) = 7
    /\ Cardinality({ e \in SeqRange(fv.dequeued) : e.type = "dir" }) = 3

\* the directory whose listing holds the entry
ParentOf(tree, path) ==
    CHOOSE d \in DOMAIN tree : \E i \in 1..Len(tree[d]) : tree[d][i].path = path

RECURSIVE DepthOf(_, _)
DepthOf(tree, path) ==
    IF ParentOf(tree, path) = "" THEN 0 ELSE 1 + DepthOf(tree, ParentOf(tree, path))

\* the part of a prompt that names the files, in order
FilesIn(prompt) ==
    LET IsFile(part) == part.kind = "file"
        parts == SelectSeq(prompt, IsFile)
    IN  [i \in 1..Len(parts) |-> parts[i].a]

\* C17: the FileSet's insertion order is the order in which the decodable
\* files were dequeued; files come in non-decreasing depth and, within one
\* directory, in listing order; files_found and the prompt's file blocks
\* follow that order.
C17_ResultOrder ==
    fv.pc \in {"loop", "returned"}
    => LET keys == fv.files_content.keys IN
       /\ keys = PathsOf(SelectSeq(fv.dequeued, IsText))
       /\ \A i, j \in 1..Len(keys) :
              i < j => DepthOf(fv.tree, keys[i]) <= DepthOf(fv.tree, keys[j])
       /\ \A d \in DOMAIN fv.tree : \A i, j \in 1..Len(fv.tree[d]) :
              (i < j /\ fv.tree[d][i].path \in SeqRange(keys)
               /\ fv.tree[d][j].path \in SeqRange(keys))
              => IndexOf(keys, fv.tree[d][i].path) < IndexOf(keys, fv.tree[d][j].path)
       /\ FilesIn(create_prompt(fv.files_content, "Review this code.", "Junior")) = keys
       /\ ReviewResponse(fv.files_content, parse_review(FullObjectText)).files_found = keys

\* files of depth 0, 1, 1 and 2, the root's file listed after a directory
C17_Witness ==
    /\ fv.pc = "returned"
    /\ fv.files_content.keys = <<"z.py", "a/x.py", "b/w.py", "a/c/y.py">>
    /\ fv.tree[""][1].type = "dir"

\* the key of r's locator and level
KeyOf(r) == <<"code", req[r].url, req[r].level>>

\* C18: a fetch that succeeds with an empty FileSet (an empty repository,
\* or only undecodable files) ends the request in NoFilesFound with status
\* 500 and leaves the cache as it was; such a request never writes the
\* cache nor calls the generator; every entry the cache holds is a
\* non-empty FileSet.
C18_EmptyFetchTerminal ==
    /\ [][\A r \in Reqs :
            (FetchStepOf(r) /\ fetch_github_repo(repo[req[r].url]).status = 200
             /\ fetch_github_repo(repo[req[r].url]).files.keys = <<>>)
            => /\ req'[r].pc = "NoFilesFound"
               /\ req'[r].response.status = 500
               /\ req'[r].response.kind = "json"
               /\ cache' = cache]_vars
    /\ [](\A r \in Reqs :
            req[r].pc = "NoFilesFound"
            => /\ req[r].nset = 0 /\ ~req[r].stored
               /\ req[r].ngen = 0
               /\ Finished(r))
    /\ [](\A key \in CacheKeys :
            cache[key].present
            => /\ JsonLoads(cache[key].val).ok
               /\ JsonLoads(cache[key].val).val.k = "dict"
               /\ JsonLoads(cache[key].val).val.keys # <<>>)

C18_Witness ==
    /\ req["r1"].pc = "NoFilesFound" /\ req["r1"].fetched_from = "binary"
    /\ req["r2"].pc = "NoFilesFound" /\ req["r2"].fetched_from = "empty"
    /\ req["r1"].nresolve = 1 /\ req["r2"].nresolve = 1
    /\ \A key \in CacheKeys : ~cache[key].present

\* C19: a request that missed reaches the generation call only after its
\* cache write; the step that fails the generation leaves the cache alone,
\* so the entry stays; a request that follows one which missed, stored and
\* ended in GenerationFailed, with the same locator and level and before
\* the entry expires, does not fetch: its lookup is a hit.
C19_WriteBeforeGeneration ==
    /\ [](\A r \in Reqs :
            (req[r].ngen >= 1 /\ ~req[r].hit) => (req[r].stored /\ req[r].nset = 1))
    /\ [](\A r \in Reqs :
            (req[r].pc = "GenerationFailed" /\ ~req[r].hit) => cache[KeyOf(r)].present)
    /\ [][\A r \in Reqs :
            (req[r].pc = "Generating" /\ req'[r].pc = "GenerationFailed")
            => cache' = cache]_vars
    /\ [][\A r1, r2 \in Reqs :
            (Sequential(r1, r2) /\ req[r1].pc = "GenerationFailed" /\ ~req[r1].hit
             /\ EntryLive(r2) /\ LookupStep(r2))
            => /\ req'[r2].pc # "Fetching"
               /\ req'[r2].pc # "Failed" => (req'[r2].hit /\ req'[r2].nresolve = 0)]_vars

C19_Witness ==
    /\ Sequential("r1", "r2")
    /\ req["r1"].pc = "GenerationFailed" /\ ~req["r1"].hit /\ req["r1"].stored
    /\ req["r1"].response.detail = "Gemini API error"
    /\ req["r2"].hit /\ req["r2"].nresolve = 0
    /\ req["r2"].pc = "Done"
    /\ req["r2"].response.files_found = req["r1"].repo_content.keys

\* C20: a lookup that finds an unexpired entry makes the request continue
\* with the entry's FileSet and leaves the cache as it was; a request served
\* from the cache never calls the hosting provider, never ends in
\* RepoNotFound, FetchError or NoFilesFound, and reports the entry's paths,
\* whatever the repository has become; an entry's expiry is one day after
\* the write that made it and only a write changes it.
C20_HitIgnoresRepository ==
    /\ [][\A r \in Reqs :
            (LookupStep(r) /\ EntryLive(r))
            => /\ req'[r].pc \in {"Generating", "Failed"}
               /\ req'[r].pc = "Generating"
                  => /\ req'[r].hit
                     /\ JsonLoads(cache[KeyOf(r)].val) = [ok |-> TRUE, val |-> req'[r].repo_content]]_vars
    /\ [](\A r \in Reqs :
            req[r].hit
            => /\ req[r].nresolve = 0 /\ req[r].nset = 0
               /\ req[r].pc \in {"Generating", "Parsing", "GenerationFailed", "Failed", "Done"}
               /\ req[r].pc = "Done" => req[r].response.files_found = req[r].repo_content.keys)
    /\ [][\A r \in Reqs :
            StoreStep(r) => cache'[KeyOf(r)].exp = Clock + 86400]_vars
    /\ [][cache' # cache => \E r \in Reqs : StoreStep(r)]_vars

\* r1 stored at time 0; half a day later, the repository gone, r2 is served
\* the entry, whose expiry is still one day after the write
C20_Witness ==
    /\ Sequential("r1", "r2")
    /\ req["r1"].stored /\ req["r1"].fetched_from = "mixed"
    /\ now = 1 /\ repo[req["r2"].url] = "NotFound"
    /\ cache[KeyOf("r2")].exp = 86400
    /\ req["r2"].hit /\ req["r2"].pc = "Done"
    /\ req["r2"].response.files_found = <<"z.py", "lib/a.py">>

====
